---- MODULE Spec2Model ----
(***************************************************************************)
(* Verification model of examples/examplemodel1 (model.c, model.h): the    *)
(* generic typed value accessor (USER_SetValueByDataType /                 *)
(* USER_GetValueByDataType), the double-buffered parameter store           *)
(* (rtParameter[2], READSIDE, readParam) and the four lifecycle entry      *)
(* points (USER_Initialize, USER_ModelStart, USER_TakeOneStep,             *)
(* USER_ModelFinalize).                                                    *)
(*                                                                         *)
(* Memory is modelled at byte level.  A double is its 8 IEEE-754 bytes and *)
(* an int32_t its 4 two's-complement bytes, both little-endian, so that a  *)
(* store through one type and a load through the other behave as on the    *)
(* target.  Byte sequences are 1-indexed: address a is element a + 1.      *)
(***************************************************************************)
EXTENDS Integers, Sequences, FiniteSets, TLC

VARIABLES
    \* ---- accessor harness (SpecAcc) ----
    mem,            \* guard bytes, one Parameters block, guard bytes
    accVal,         \* the value this host writes
    accPc,          \* "run" | "crashed"
    accCalls,       \* number of accessor calls made so far
    accCall,        \* the last accessor call: its arguments
    accRet,         \* what the last call returned
    accPrev,        \* history: mem before the last call
    \* ---- parameter store and lifecycle (Spec) ----
    rtParameter,    \* side (0, 1) -> bytes of one Parameters block
    READSIDE,       \* the active-side selector
    rtSignalAttribs,\* entry (0, 1) -> .addr of the signal descriptor
    ret,            \* status returned by the last USER_ lifecycle call
    lastCall,       \* history: the last lifecycle entry point called
    phase,          \* history: the lifecycle state of spec section 4.4
    lastValid,      \* history: was the last call allowed in `phase`
    tick,           \* history: parity of the number of steps taken
    wpc, gen,       \* host writer: position, generation being staged
    pubGen, pubs,   \* history: generation last published, publish count
    rpc, rside,     \* reader: position in the tick, READSIDE as first read
    rgen,           \* history: pubGen when the reader's tick began
    obsI, obsD      \* reader: the values read in this tick

accVars == <<mem, accVal, accPc, accCalls, accCall, accRet, accPrev>>
storeVars == <<rtParameter, READSIDE, rtSignalAttribs, ret, lastCall, phase,
               lastValid, tick, wpc, gen, pubGen, pubs, rpc, rside, rgen,
               obsI, obsD>>
vars == <<accVars, storeVars>>

----------------------------------------------------------------------------
(* Program constants *)

rtDBL == 0
rtINT == 1

\* Bounds of the model
VecLen == 4       \* elements of double_vec_param kept (16 in model.h)
GuardLen == 8     \* bytes of adjacent memory modelled on each side
MaxCalls == 2     \* accessor calls per run
MaxGen == 3       \* generations the host stages

INT_MAX == 2147483647
INT_MIN == (-2147483647) - 1

----------------------------------------------------------------------------
(* Numeric representations *)

\* floor(log2 m) for 1 <= m < 2^31
FloorLog2(m) == CHOOSE e \in 0..30 : 2^e <= m /\ (e = 30 \/ m < 2^(e + 1))

\* The IEEE-754 binary64 bytes of (-1)^neg * h * 2^(-s), h < 2^31.
\* Only the top 30 mantissa bits can be non-zero for such h.
DblBits(neg, h, s) ==
    IF h = 0 THEN <<0, 0, 0, 0, 0, 0, 0, IF neg THEN 128 ELSE 0>>
    ELSE LET e == FloorLog2(h)
             bexp == e - s + 1023
             top30 == (h - 2^e) * 2^(30 - e)
         IN <<0, 0, (top30 % 4) * 64, (top30 \div 4) % 256,
              (top30 \div 1024) % 256, (top30 \div 262144) % 256,
              (bexp % 16) * 16 + top30 \div 67108864,
              (IF neg THEN 128 ELSE 0) + bexp \div 16>>

\* static const uint64_t nan = ~(uint64_t)0, read as a double
NaNBits == <<255, 255, 255, 255, 255, 255, 255, 255>>

\* The 4 bytes of an int32_t
I32Bytes(v) ==
    LET lo31 == IF v >= 0 THEN v ELSE (v + 2147483647) + 1
    IN <<lo31 % 256, (lo31 \div 256) % 256, (lo31 \div 65536) % 256,
         lo31 \div 16777216 + (IF v < 0 THEN 128 ELSE 0)>>

\* The int32_t held in 4 bytes
BytesI32(b) ==
    LET lo31 == (b[4] % 128) * 16777216 + b[3] * 65536 + b[2] * 256 + b[1]
    IN IF b[4] >= 128 THEN (lo31 - 2147483647) - 1 ELSE lo31

\* (double)v for an int32_t v: exact
I32ToDbl(v) ==
    IF v = INT_MIN THEN <<0, 0, 0, 0, 0, 0, 224, 193>>
    ELSE DblBits(v < 0, IF v < 0 THEN -v ELSE v, 0)

\* Variant of CastI32 that rounds toward minus infinity (floor)
CastI32_Floor(d) ==
    LET neg == d[8] >= 128
        bexp == (d[8] % 128) * 16 + d[7] \div 16
        top30 == (d[7] % 16) * 67108864 + d[6] * 262144 + d[5] * 1024
                 + d[4] * 4 + d[3] \div 64
        e == bexp - 1023
    IN IF bexp = 0 THEN {0}
       ELSE IF e < 0 THEN {IF neg THEN -1 ELSE 0}
       ELSE IF e <= 30
            THEN LET mag == 2^e + top30 \div 2^(30 - e)
                     frac == top30 % 2^(30 - e) # 0
                 IN {IF neg THEN (IF frac THEN -mag - 1 ELSE -mag) ELSE mag}
       ELSE {(-2147483647) - 1, 2147483647, 0}

\* (int32_t)d for a double d: truncation toward zero.  The conversion of a
\* value outside the int32_t range (or of a NaN or an infinity) is undefined
\* and yields, depending on the target, INT_MIN, a saturated value or 0.
CastI32(d) ==
    LET neg == d[8] >= 128
        bexp == (d[8] % 128) * 16 + d[7] \div 16
        top30 == (d[7] % 16) * 67108864 + d[6] * 262144 + d[5] * 1024
                 + d[4] * 4 + d[3] \div 64
        e == bexp - 1023
    IN IF bexp = 0 \/ e < 0 THEN {0}
       ELSE IF e <= 30
            THEN LET mag == 2^e + top30 \div 2^(30 - e)
                 IN {IF neg THEN -mag ELSE mag}
       ELSE IF e = 31 /\ neg /\ top30 = 0 /\ (d[3] \div 32) % 2 = 0
            THEN {INT_MIN}
       ELSE {INT_MIN, INT_MAX, 0}

----------------------------------------------------------------------------
(* Raw memory *)

LoadBytes(m, addr, n) == [k \in 1..n |-> m[addr + k]]

StoreBytes(m, addr, bytes) ==
    [k \in 1..Len(m) |->
        IF k > addr /\ k <= addr + Len(bytes) THEN bytes[k - addr] ELSE m[k]]

Zeros(n) == [k \in 1..n |-> 0]

----------------------------------------------------------------------------
(* Layout of struct Parameters and its descriptor table *)

\* offsetof(Parameters, i32_param), offsetof(Parameters, double_vec_param):
\* the int32_t is followed by 4 bytes of padding
rtParamAttribs ==
    <<[offset |-> 0, type |-> rtINT, width |-> 1],
      [offset |-> 8, type |-> rtDBL, width |-> VecLen]>>

\* sizeof(Parameters)
BlockLen == 8 + 8 * VecLen

\* Parameters initParams: static storage without an initializer
initParams == Zeros(BlockLen)

----------------------------------------------------------------------------
(* The accessor *)

NI_OK == "NI_OK"
NI_ERROR == "NI_ERROR"

\* sizeof the native representation selected by a type tag (0: no access)
ElemSize(type) == IF type = rtDBL THEN 8 ELSE IF type = rtINT THEN 4 ELSE 0

\* Variant of USER_SetValueByDataType whose rtINT case stores 8 bytes
USER_SetValueByDataType_Wide(m, ptr, idx, value, type) ==
    IF type = rtDBL
    THEN {[mem |-> StoreBytes(m, ptr + 8 * idx, value), ret |-> NI_OK]}
    ELSE IF type = rtINT
    THEN {[mem |-> StoreBytes(m, ptr + 4 * idx, I32Bytes(r) \o <<0, 0, 0, 0>>),
           ret |-> NI_OK] : r \in CastI32(value)}
    ELSE {[mem |-> m, ret |-> NI_ERROR]}

\* int32_t USER_SetValueByDataType(void* ptr, int32_t idx, double value,
\* int32_t type): the possible results, each the memory after the call and
\* the status returned.
USER_SetValueByDataType(m, ptr, idx, value, type) ==
    IF type = rtDBL
    THEN {[mem |-> StoreBytes(m, ptr + 8 * idx, value), ret |-> NI_OK]}
    ELSE IF type = rtINT
    THEN {[mem |-> StoreBytes(m, ptr + 4 * idx, I32Bytes(r)), ret |-> NI_OK]
             : r \in CastI32(value)}
    ELSE {[mem |-> m, ret |-> NI_ERROR]}

\* Variant of USER_GetValueByDataType that returns 0.0 for an unknown tag
USER_GetValueByDataType_Zero(m, ptr, idx, type) ==
    IF type = rtDBL THEN LoadBytes(m, ptr + 8 * idx, 8)
    ELSE IF type = rtINT THEN I32ToDbl(BytesI32(LoadBytes(m, ptr + 4 * idx, 4)))
    ELSE Zeros(8)

\* double USER_GetValueByDataType(void* ptr, int32_t idx, int32_t type)
USER_GetValueByDataType(m, ptr, idx, type) ==
    IF type = rtDBL THEN LoadBytes(m, ptr + 8 * idx, 8)
    ELSE IF type = rtINT THEN I32ToDbl(BytesI32(LoadBytes(m, ptr + 4 * idx, 4)))
    ELSE NaNBits

----------------------------------------------------------------------------
(* Accessor harness: a host calling the accessor on one Parameters block   *)
(* that lies between GuardLen bytes of other memory on each side.          *)

ParamBase == GuardLen
MemLen == GuardLen + BlockLen + GuardLen

\* Values the host passes: (-1)^neg * h * 2^(-s)
InputVals ==
    {[neg |-> FALSE, h |-> 7, s |-> 0],            \* 7.0
     [neg |-> FALSE, h |-> 7, s |-> 1],            \* 3.5
     [neg |-> TRUE, h |-> 5, s |-> 1],             \* -2.5
     [neg |-> FALSE, h |-> 2147483647, s |-> 0],   \* INT_MAX
     [neg |-> FALSE, h |-> 1073741824, s |-> -1]}  \* 2^31: not an int32_t

DblOf(v) == DblBits(v.neg, v.h, v.s)

\* Type tags the host passes: the two supported ones and two others
TypeTags == {rtDBL, rtINT, 2, -1}

\* Element indices the host passes for field f: in range, and out of range
\* on both sides
IdxRange(f) == (-1)..(rtParamAttribs[f].width + 1)

\* The bytes [addr, addr + n) lie in the modelled memory / in the block
InMem(addr, n) == addr >= 0 /\ addr + n <= MemLen
InBlock(addr, n) == addr >= ParamBase /\ addr + n <= ParamBase + BlockLen

NoCall == [op |-> "none", f |-> 1, ptr |-> 0, idx |-> 0, type |-> rtDBL,
           v |-> [neg |-> FALSE, h |-> 0, s |-> 0]]

AccInit ==
    /\ mem = [k \in 1..MemLen |->
                 IF k > ParamBase /\ k <= ParamBase + BlockLen THEN 0 ELSE 170]
    /\ accVal \in InputVals
    /\ accPc = "run"
    /\ accCalls = 0
    /\ accCall = NoCall
    /\ accRet = [st |-> "none", val |-> Zeros(8)]
    /\ accPrev = mem

\* The host calls setByType on a field of the block.  An access that leaves
\* the block is undefined: it is done on the adjacent memory, or it faults.
AccSet ==
    /\ accPc = "run"
    /\ accCalls < MaxCalls
    /\ \E f \in 1..2, type \in TypeTags :
       \E idx \in IdxRange(f) :
         LET v == accVal
             ptr == ParamBase + rtParamAttribs[f].offset
             addr == ptr + ElemSize(type) * idx
         IN /\ InMem(addr, ElemSize(type))
            /\ accCall' = [op |-> "set", f |-> f, ptr |-> ptr, idx |-> idx,
                           type |-> type, v |-> v]
            /\ accPrev' = mem
            /\ accCalls' = accCalls + 1
            /\ accVal' = accVal
            /\ \/ /\ \E o \in USER_SetValueByDataType(mem, ptr, idx, DblOf(v), type) :
                       /\ mem' = o.mem
                       /\ accRet' = [st |-> o.ret, val |-> Zeros(8)]
                  /\ accPc' = "run"
               \/ /\ ~InBlock(addr, ElemSize(type))
                  /\ mem' = mem
                  /\ accRet' = [st |-> "Fault", val |-> Zeros(8)]
                  /\ accPc' = "crashed"
    /\ UNCHANGED storeVars

\* The host calls getByType on a field of the block.
AccGet ==
    /\ accPc = "run"
    /\ accCalls < MaxCalls
    /\ \E f \in 1..2, type \in TypeTags :
       \E idx \in IdxRange(f) :
         LET ptr == ParamBase + rtParamAttribs[f].offset
             addr == ptr + ElemSize(type) * idx
         IN /\ InMem(addr, ElemSize(type))
            /\ accCall' = [op |-> "get", f |-> f, ptr |-> ptr, idx |-> idx,
                           type |-> type, v |-> NoCall.v]
            /\ accPrev' = mem
            /\ accCalls' = accCalls + 1
            /\ accVal' = accVal
            /\ mem' = mem
            /\ \/ /\ accRet' = [st |-> "value",
                                val |-> USER_GetValueByDataType(mem, ptr, idx, type)]
                  /\ accPc' = "run"
               \/ /\ ~InBlock(addr, ElemSize(type))
                  /\ accRet' = [st |-> "Fault", val |-> Zeros(8)]
                  /\ accPc' = "crashed"
    /\ UNCHANGED storeVars

AccNext == AccSet \/ AccGet

----------------------------------------------------------------------------
(* The parameter store *)

\* Variants of readParam: side 0 whatever READSIDE is; the other side
readParam_Side0 == rtParameter[0]
readParam_Other == rtParameter[1 - READSIDE]

\* #define readParam rtParameter[READSIDE]
readParam == rtParameter[READSIDE]

\* readParam.i32_param and readParam.double_vec_param[0][0] of a block
I32Param(blk) == BytesI32(LoadBytes(blk, rtParamAttribs[1].offset, 4))
DblParam0(blk) == LoadBytes(blk, rtParamAttribs[2].offset, 8)

\* The value generation g gives to every field it writes
GenVal(g) == 98 + g

----------------------------------------------------------------------------
(* Lifecycle entry points *)

\* (uintptr_t)rtSignal.i32_vec_sig, (uintptr_t)&rtSignal.double_sig
AddrI32VecSig == "&rtSignal.i32_vec_sig"
AddrDoubleSig == "&rtSignal.double_sig"

\* The state machine of the lifecycle contract, kept as history: which state
\* the contract is in, and whether the call just made was allowed there.
Monitor(call) ==
    LET ok == CASE call = "initialize" -> phase = "Uninitialized"
                [] call = "start" -> phase = "Initialized"
                [] call = "step" -> phase = "Running"
                [] call = "finalize" -> phase \in {"Initialized", "Running"}
        next == CASE call = "initialize" -> "Initialized"
                  [] call = "start" -> "Running"
                  [] call = "step" -> "Running"
                  [] call = "finalize" -> "Finalized"
    IN /\ lastCall' = call
       /\ lastValid' = ok
       /\ phase' = IF ok THEN next ELSE phase
       /\ tick' = IF call = "step" THEN 1 - tick ELSE tick

hostVars == <<wpc, gen, pubGen, pubs>>
readerVars == <<rpc, rside, rgen, obsI, obsD>>

USER_Initialize ==
    /\ rtSignalAttribs' = [rtSignalAttribs EXCEPT ![0] = AddrI32VecSig,
                                                  ![1] = AddrDoubleSig]
    /\ ret' = NI_OK
    /\ Monitor("initialize")
    /\ UNCHANGED <<rtParameter, READSIDE, hostVars, readerVars, accVars>>

USER_ModelStart ==
    /\ ret' = NI_OK
    /\ Monitor("start")
    /\ UNCHANGED <<rtParameter, READSIDE, rtSignalAttribs, hostVars,
                   readerVars, accVars>>

\* Variant of USER_TakeOneStep that writes i32_param of the active block
USER_TakeOneStep_InPlace ==
    /\ ret' = NI_OK
    /\ Monitor("step")
    /\ rtParameter' = [rtParameter EXCEPT
                          ![READSIDE] = StoreBytes(@, 0, I32Bytes(-1))]
    /\ UNCHANGED <<READSIDE, rtSignalAttribs, hostVars, readerVars, accVars>>

USER_TakeOneStep ==
    /\ ret' = NI_OK
    /\ Monitor("step")
    /\ UNCHANGED <<rtParameter, READSIDE, rtSignalAttribs, hostVars,
                   readerVars, accVars>>

USER_ModelFinalize ==
    /\ ret' = NI_OK
    /\ Monitor("finalize")
    /\ UNCHANGED <<rtParameter, READSIDE, rtSignalAttribs, hostVars,
                   readerVars, accVars>>

lifeVars == <<rtSignalAttribs, ret, lastCall, phase, lastValid, tick>>

----------------------------------------------------------------------------
(* The host: stage (copy the active block to the other side), mutate the   *)
(* staged block through the accessor, publish (flip READSIDE).  A staging  *)
(* may be redone before it is published.                                   *)

HostStage ==
    /\ wpc \in {"idle", "staged"}
    /\ gen < MaxGen
    /\ rtParameter' = [rtParameter EXCEPT ![1 - READSIDE] = readParam]
    /\ gen' = gen + 1
    /\ wpc' = "copied"
    /\ UNCHANGED <<READSIDE, pubGen, pubs, lifeVars, readerVars, accVars>>

HostMutate(f, from, to) ==
    /\ wpc = from
    /\ \E o \in USER_SetValueByDataType(rtParameter[1 - READSIDE],
                    rtParamAttribs[f].offset, 0, DblBits(FALSE, GenVal(gen), 0),
                    rtParamAttribs[f].type) :
         rtParameter' = [rtParameter EXCEPT ![1 - READSIDE] = o.mem]
    /\ wpc' = to
    /\ UNCHANGED <<READSIDE, gen, pubGen, pubs, lifeVars, readerVars, accVars>>

HostMutateI32 == HostMutate(1, "copied", "half")

HostMutateDbl == HostMutate(2, "half", "staged")

HostPublish ==
    /\ wpc = "staged"
    /\ READSIDE' = 1 - READSIDE
    /\ pubGen' = gen
    /\ pubs' = pubs + 1
    /\ wpc' = "idle"
    /\ UNCHANGED <<rtParameter, gen, lifeVars, readerVars, accVars>>

----------------------------------------------------------------------------
(* A reader in the step executor: in each tick it reads readParam.i32_param *)
(* and then readParam.double_vec_param[0][0].  READSIDE is a plain int32_t  *)
(* shared with the host, so for the second read the build may evaluate      *)
(* READSIDE again or reuse the value it loaded for the first.               *)

ReadI32 ==
    /\ rpc = "idle"
    /\ obsI' = I32Param(readParam)
    /\ rside' = READSIDE
    /\ rgen' = pubGen
    /\ rpc' = "mid"
    /\ UNCHANGED <<obsD, rtParameter, READSIDE, lifeVars, hostVars, accVars>>

ReadDbl ==
    /\ rpc = "mid"
    /\ \/ obsD' = DblParam0(readParam)
       \/ obsD' = DblParam0(rtParameter[rside])
    /\ rpc' = "done"
    /\ UNCHANGED <<obsI, rside, rgen, rtParameter, READSIDE, lifeVars,
                   hostVars, accVars>>

ReadEnd ==
    /\ rpc = "done"
    /\ rpc' = "idle"
    /\ obsI' = 0
    /\ obsD' = Zeros(8)
    /\ UNCHANGED <<rside, rgen, rtParameter, READSIDE, lifeVars, hostVars,
                   accVars>>

----------------------------------------------------------------------------
(* Specifications *)

StoreInit ==
    /\ rtParameter = [side \in {0, 1} |-> initParams]
    /\ READSIDE = 0
    /\ rtSignalAttribs = [e \in {0, 1} |-> "NULL"]
    /\ ret = "none"
    /\ lastCall = "none"
    /\ phase = "Uninitialized"
    /\ lastValid = TRUE
    /\ tick = 0
    /\ wpc = "idle"
    /\ gen = 0
    /\ pubGen = 0
    /\ pubs = 0
    /\ rpc = "idle"
    /\ rside = 0
    /\ rgen = 0
    /\ obsI = 0
    /\ obsD = Zeros(8)

Init == AccInit /\ StoreInit

Next ==
    \/ USER_Initialize
    \/ USER_ModelStart
    \/ USER_TakeOneStep
    \/ USER_ModelFinalize
    \/ HostStage
    \/ HostMutateI32
    \/ HostMutateDbl
    \/ HostPublish
    \/ ReadI32
    \/ ReadDbl
    \/ ReadEnd

\* The lifecycle, the host and the reader on the parameter store
Spec == Init /\ [][Next]_vars

\* The accessor applied to one block
SpecAcc == Init /\ [][AccNext]_vars

----------------------------------------------------------------------------
(* Properties of the accessor (specification SpecAcc) *)

\* The bytes the last accessor call addressed
CallAddr == accCall.ptr + (IF accCall.type = rtDBL THEN 8 ELSE 4) * accCall.idx
CallSize == IF accCall.type = rtDBL THEN 8 ELSE 4
CallSupported == accCall.type \in {0, 1}
CallInRange ==
    /\ accCall.idx >= 0
    /\ CallAddr >= ParamBase
    /\ CallAddr + CallSize <= ParamBase + BlockLen

\* The value written is representable in the type of the call
Representable == accCall.type = 0 \/ accCall.v.s >= 0

\* What must be read back: the value itself as a float64, the value
\* truncated toward zero as an int32
ReadBack ==
    IF accCall.type = 0 THEN DblBits(accCall.v.neg, accCall.v.h, accCall.v.s)
    ELSE LET q == accCall.v.h \div (2 ^ accCall.v.s)
         IN DblBits(accCall.v.neg /\ q # 0, q, 0)

\* C2: after setByType(buf, i, v, T) with T supported, i in range and v
\* representable in T has returned Ok, getByType(buf, i, T) returns v for
\* Float64 and v truncated toward zero for Int32.
RoundTrip ==
    (/\ accCall.op = "set"
     /\ CallSupported
     /\ CallInRange
     /\ Representable)
    => /\ accRet.st = "NI_OK"
       /\ USER_GetValueByDataType(mem, accCall.ptr, accCall.idx, accCall.type)
            = ReadBack

\* 3.5 has been written as an Int32 into double_vec_param's memory
RoundTripSeen ==
    /\ accCall.op = "set"
    /\ accCall.type = 1
    /\ accCall.f = 2
    /\ accCall.idx = 3
    /\ accCall.v = [neg |-> FALSE, h |-> 7, s |-> 1]
    /\ accRet.st = "NI_OK"
    /\ accCalls = 2

\* C3: for a type tag outside {0, 1}, whatever the buffer and the index,
\* setByType returns NI_ERROR and getByType returns the all-ones NaN; for
\* the tags 0 and 1 a setByType that returns returns NI_OK.
InvalidType ==
    /\ (accCall.op = "set" /\ ~CallSupported) => accRet.st = "NI_ERROR"
    /\ (accCall.op = "get" /\ ~CallSupported)
          => (accRet.st = "value" /\ \A k \in 1..8 : accRet.val[k] = 255)
    /\ (accCall.op = "set" /\ CallSupported /\ accRet.st # "Fault")
          => accRet.st = "NI_OK"

\* getByType was called with tag -1 after an earlier call
InvalidTypeSeen ==
    /\ accCall.op = "get"
    /\ accCall.type = -1
    /\ accCalls = 2

\* C4: a call whose element index is negative or not below the declared
\* element count of the addressed field fails with OutOfRange and touches no
\* memory.
OutOfRangeRejected ==
    (/\ accCall.op \in {"set", "get"}
     /\ accCall.type = rtParamAttribs[accCall.f].type
     /\ (accCall.idx < 0 \/ accCall.idx >= rtParamAttribs[accCall.f].width))
    => (accRet.st = "OutOfRange" /\ mem = accPrev)

\* C10: a setByType that returned NI_OK changed only the bytes of element i
\* (8 from 8*i for Float64, 4 from 4*i for Int32); a Float64 write at index
\* 2 of the block leaves the int32 scalar at offset 0 as it was; a setByType
\* with an unsupported tag and every getByType leave all memory unchanged.
AccessorFrame ==
    /\ (accCall.op = "set" /\ accRet.st = "NI_OK")
          => \A k \in 1..MemLen :
                (k <= CallAddr \/ k > CallAddr + CallSize) => mem[k] = accPrev[k]
    /\ (accCall.op = "set" /\ accRet.st = "NI_OK" /\ accCall.f = 1
        /\ accCall.type = 0 /\ accCall.idx = 2)
          => LoadBytes(mem, ParamBase, 4) = LoadBytes(accPrev, ParamBase, 4)
    /\ (accCall.op = "set" /\ accRet.st = "NI_ERROR") => mem = accPrev
    /\ accCall.op = "get" => mem = accPrev

\* The int32 scalar was set to 7, then a Float64 was written at index 2
AccessorFrameSeen ==
    /\ accCall.op = "set"
    /\ accCall.f = 1
    /\ accCall.type = 0
    /\ accCall.idx = 2
    /\ accRet.st = "NI_OK"
    /\ LoadBytes(mem, ParamBase, 4) = <<7, 0, 0, 0>>
    /\ LoadBytes(mem, ParamBase + 16, 8) = <<0, 0, 0, 0, 0, 0, 28, 64>>

----------------------------------------------------------------------------
(* Properties of the parameter store and the lifecycle (specification Spec) *)

\* C1: the two fields a reader reads through readParam within one tick
\* belong to the same publish generation.
PublishAtomicity == rpc = "done" => obsD = I32ToDbl(obsI)

\* C5: a call made out of the order Uninitialized -> Initialized -> Running
\* -> Finalized (a step before initialize and start, a second initialize)
\* fails with LifecycleViolation.
LifecycleOrdering ==
    (lastCall # "none" /\ ~lastValid) => ret = "LifecycleViolation"

\* The block generation g publishes: the defaults with both fields set
GenBlock(g) ==
    StoreBytes(StoreBytes(Zeros(BlockLen), 0, I32Bytes(98 + g)),
               8, DblBits(FALSE, 98 + g, 0))

\* C6: once a staged block is published, the active block is exactly the
\* block last staged before that publish (the latest staging when several
\* were made), and a tick that begins after the publish reads its values.
PublishVisibility ==
    /\ pubGen > 0 => readParam = GenBlock(pubGen)
    /\ (rpc # "idle" /\ rgen > 0) => obsI = 98 + rgen

\* Two stagings, one publish, and a tick that then read the int32 scalar
PublishVisibilitySeen ==
    /\ pubs = 1
    /\ pubGen = 2
    /\ rpc = "mid"
    /\ rgen = 2
    /\ obsI = 100

\* C7: the selector is always 0 or 1, and the content of the active block
\* changes only when the selector flips: no host write changes the block
\* that is active when it is made.
StoreInvariant ==
    /\ [](READSIDE \in {0, 1})
    /\ [][READSIDE' = READSIDE => readParam' = readParam]_vars

\* The host has staged a new block on side 0 while side 1 is active
StoreInvariantSeen ==
    /\ READSIDE = 1
    /\ wpc = "staged"
    /\ rtParameter[0] # rtParameter[1]
    /\ rtParameter[1] = GenBlock(pubGen)

\* C8: an initialize called from Uninitialized that returns Ok leaves both
\* signal descriptors bound to their fields, side 0 of the store equal to
\* the defaults and the selector 0.
InitializePostcondition ==
    [][(phase = "Uninitialized" /\ phase' = "Initialized" /\ ret' = "NI_OK")
        => /\ rtSignalAttribs'[0] = "&rtSignal.i32_vec_sig"
           /\ rtSignalAttribs'[1] = "&rtSignal.double_sig"
           /\ rtParameter'[0] = Zeros(BlockLen)
           /\ READSIDE' = 0]_vars

\* C9: a step changes neither the selector nor either parameter block,
\* returns NI_OK or NI_ERROR, and can be taken in every state, whatever the
\* host is doing.
StepFrame ==
    /\ [][tick' # tick => /\ rtParameter' = rtParameter
                          /\ READSIDE' = READSIDE
                          /\ ret' \in {"NI_OK", "NI_ERROR"}]_vars
    /\ [](ENABLED USER_TakeOneStep)

\* A step was taken while the host was half-way through a staging
StepFrameSeen ==
    /\ lastCall = "step"
    /\ tick = 1
    /\ ret = "NI_OK"
    /\ wpc = "half"
    /\ gen = 2

====
